---- MODULE Spec2Model ----
(***************************************************************************)
(* A model of markdown_to_gdoc.py: the line parser parse_markdown and the  *)
(* request builder / submitter markdown_to_google_doc.                      *)
(*                                                                         *)
(* A text is a sequence of one-character strings.  Offsets in the model    *)
(* are Python's: 0-based inside a string, and the document's indices as    *)
(* the code computes them (starting at 1).                                 *)
(***************************************************************************)
EXTENDS Integers, Sequences, FiniteSets, TLC

VARIABLES md_text, pc, doc_id, blocks, cursor, text_parts, spans, full_text,
          requests, remote, result

vars == <<md_text, pc, doc_id, blocks, cursor, text_parts, spans, full_text,
          requests, remote, result>>

(***************************************************************************)
(* Characters                                                              *)
(***************************************************************************)

\* The characters of the model's texts that Python's str.isspace / regex \s
\* accept.  "\n" and "\r" never occur inside a line (splitlines removes them).
Whitespace == {" ", "\t", "\n", "\r"}

\* The line boundaries of str.splitlines that occur in the model's texts.
LineBreaks == {"\n", "\r"}

\* The characters of the model's texts that regex \w accepts.
WordChars == {"a", "b", "c", "d", "e", "g", "i", "n", "o", "r", "t", "u", "y",
              "x", "X", "D", "M", "T", "1", "2", "_"}

IsSpace(c) == c \in Whitespace

(***************************************************************************)
(* String helpers (Python's str methods, on sequences of characters)       *)
(***************************************************************************)

\* The length of the longest run of characters of set cs in s from position i
\* (1-based) on.
Run(s, i, cs) ==
  CHOOSE m \in 0..(Len(s) + 1 - i) :
    /\ \A j \in i..(i + m - 1) : s[j] \in cs
    /\ (i + m > Len(s) \/ s[i + m] \notin cs)

\* The length of the longest run of characters of cs that ends s.
RunBack(s, cs) ==
  CHOOSE m \in 0..Len(s) :
    /\ \A j \in (Len(s) - m + 1)..Len(s) : s[j] \in cs
    /\ (m = Len(s) \/ s[Len(s) - m] \notin cs)

\* s.lstrip(chars)
lstrip(s, cs) == SubSeq(s, Run(s, 1, cs) + 1, Len(s))

\* s.rstrip(chars)
rstrip(s, cs) == SubSeq(s, 1, Len(s) - RunBack(s, cs))

\* s.strip()
strip(s) == rstrip(lstrip(s, Whitespace), Whitespace)

\* s.startswith(p)
startswith(s, p) == Len(s) >= Len(p) /\ SubSeq(s, 1, Len(p)) = p

\* s[n:]
From(s, n) == SubSeq(s, n + 1, Len(s))

RECURSIVE SplitFrom(_, _, _, _)
SplitFrom(s, i, cur, out) ==
  IF i > Len(s) THEN (IF cur = <<>> THEN out ELSE Append(out, cur))
  ELSE IF s[i] = "\r" /\ i < Len(s) /\ s[i + 1] = "\n"
       THEN SplitFrom(s, i + 2, <<>>, Append(out, cur))
  ELSE IF s[i] \in LineBreaks
       THEN SplitFrom(s, i + 1, <<>>, Append(out, cur))
  ELSE SplitFrom(s, i + 1, Append(cur, s[i]), out)

\* A mutant of splitlines: str.split("\n"), which keeps the empty piece after a
\* final "\n".
RECURSIVE SplitKeepLast(_, _, _, _)
SplitKeepLast(s, i, cur, out) ==
  IF i > Len(s) THEN Append(out, cur)
  ELSE IF s[i] = "\n" THEN SplitKeepLast(s, i + 1, <<>>, Append(out, cur))
  ELSE SplitKeepLast(s, i + 1, Append(cur, s[i]), out)

splitlines_split(s) == SplitKeepLast(s, 1, <<>>, <<>>)

\* s.splitlines(): the lines of s without their terminators; "\r\n" is one
\* terminator, and a final terminator starts no further line.
splitlines(s) == SplitFrom(s, 1, <<>>, <<>>)

(***************************************************************************)
(* The regular expressions of parse_markdown.  Each operator gives the end *)
(* of re.match's match (the number of characters matched), 0 for no match: *)
(* every match of these patterns is at least two characters long.          *)
(***************************************************************************)

\* A mutant of CheckboxMatch: the bullet pattern's [-*] in place of the dash.
CheckboxMatchStar(raw, marks) ==
  LET n == Run(raw, 1, Whitespace) IN
  IF /\ Len(raw) >= n + 6
     /\ raw[n + 1] \in {"-", "*"}
     /\ IsSpace(raw[n + 2])
     /\ raw[n + 3] = "["
     /\ raw[n + 4] \in marks
     /\ raw[n + 5] = "]"
     /\ IsSpace(raw[n + 6])
  THEN n + 5 + Run(raw, n + 6, Whitespace)
  ELSE 0

\* re.match(r"^\s*-\s\[(<marks>)\]\s+", raw)
CheckboxMatch(raw, marks) ==
  LET n == Run(raw, 1, Whitespace) IN
  IF /\ Len(raw) >= n + 6
     /\ raw[n + 1] = "-"
     /\ IsSpace(raw[n + 2])
     /\ raw[n + 3] = "["
     /\ raw[n + 4] \in marks
     /\ raw[n + 5] = "]"
     /\ IsSpace(raw[n + 6])
  THEN n + 5 + Run(raw, n + 6, Whitespace)
  ELSE 0

\* re.match(r"^\s*[-*]\s+", raw)
BulletMatch(raw) ==
  LET n == Run(raw, 1, Whitespace) IN
  IF /\ Len(raw) >= n + 2
     /\ raw[n + 1] \in {"-", "*"}
     /\ IsSpace(raw[n + 2])
  THEN n + 1 + Run(raw, n + 2, Whitespace)
  ELSE 0

FOOTER_RECORDED == <<"M", "e", "e", "t", "i", "n", "g", " ", "r", "e", "c", "o",
                     "r", "d", "e", "d", " ", "b", "y", ":">>

FOOTER_DURATION == <<"D", "u", "r", "a", "t", "i", "o", "n", ":">>

RULE == <<"-", "-", "-">>

(***************************************************************************)
(* Block and parse_markdown                                                *)
(***************************************************************************)

Block(kind, text, level, checked) ==
  [kind |-> kind, text |-> text, level |-> level, checked |-> checked]

\* A mutant of IndentLevel: lstrip() without its argument strips tabs too.
IndentLevelAnyWhitespace(raw) ==
  (Len(raw) - Len(lstrip(raw, Whitespace))) \div 2

\* (len(raw) - len(raw.lstrip(" "))) // 2
IndentLevel(raw) == (Len(raw) - Len(lstrip(raw, {" "}))) \div 2

\* A mutant of IsBlankRaw: "not raw", without the strip.
IsBlankRawNoStrip(raw) == raw = <<>>

\* not raw.strip()
IsBlankRaw(raw) == strip(raw) = <<>>

\* The body of parse_markdown's loop: the block of one line.
ParseLine(line) ==
  LET raw == rstrip(line, {"\n"}) IN
  IF IsBlankRaw(raw) THEN Block("blank", <<>>, 0, FALSE)
  ELSE IF startswith(raw, <<"#", " ">>)
       THEN Block("h1", strip(From(raw, 2)), 0, FALSE)
  ELSE IF startswith(raw, <<"#", "#", " ">>)
       THEN Block("h2", strip(From(raw, 3)), 0, FALSE)
  ELSE IF startswith(raw, <<"#", "#", "#", " ">>)
       THEN Block("h3", strip(From(raw, 4)), 0, FALSE)
  ELSE IF CheckboxMatch(raw, {" ", "x", "X"}) > 0
       THEN Block("checkbox",
                  strip(From(raw, CheckboxMatch(raw, {" ", "x", "X"}))),
                  IndentLevel(raw),
                  CheckboxMatch(raw, {"x", "X"}) > 0)
  ELSE IF BulletMatch(raw) > 0
       THEN Block("bullet", strip(From(raw, BulletMatch(raw))),
                  IndentLevel(raw), FALSE)
  ELSE IF startswith(raw, FOOTER_RECORDED) \/ startswith(raw, FOOTER_DURATION)
       THEN Block("footer", strip(raw), 0, FALSE)
  ELSE IF strip(raw) = RULE THEN Block("blank", <<>>, 0, FALSE)
  ELSE Block("p", strip(raw), 0, FALSE)

parse_markdown(text) ==
  LET lines == splitlines(text) IN
  [i \in 1..Len(lines) |-> ParseLine(lines[i])]

(***************************************************************************)
(* Request builders                                                        *)
(***************************************************************************)

\* Python's None for an optional argument; a given value v is <<v>>.
None == <<>>

Some(v) == <<v>>

\* An empty dict.
EmptyDict == [k \in {} |-> k]

\* ",".join(fields) is kept as the sequence of the field names it joins.
_paragraph_style_request(start, end, named_style_type, indent_pt) ==
  LET style == (IF named_style_type # None
                THEN "namedStyleType" :> named_style_type[1] ELSE EmptyDict)
               @@ (IF indent_pt # None
                   THEN "indentStart" :> [magnitude |-> indent_pt[1], unit |-> "PT"]
                   ELSE EmptyDict)
      fields == (IF named_style_type # None THEN <<"namedStyleType">> ELSE <<>>)
                \o (IF indent_pt # None THEN <<"indentStart">> ELSE <<>>)
  IN [updateParagraphStyle |->
        [range |-> [startIndex |-> start, endIndex |-> end],
         paragraphStyle |-> style,
         fields |-> fields]]

_text_style_request(start, end, bold, italic, font_size_pt, rgb) ==
  LET style == (IF bold # None THEN "bold" :> bold[1] ELSE EmptyDict)
               @@ (IF italic # None THEN "italic" :> italic[1] ELSE EmptyDict)
               @@ (IF font_size_pt # None
                   THEN "fontSize" :> [magnitude |-> font_size_pt[1], unit |-> "PT"]
                   ELSE EmptyDict)
               @@ (IF rgb # None
                   THEN "foregroundColor" :> [color |-> [rgbColor |-> rgb[1]]]
                   ELSE EmptyDict)
      fields == (IF bold # None THEN <<"bold">> ELSE <<>>)
                \o (IF italic # None THEN <<"italic">> ELSE <<>>)
                \o (IF font_size_pt # None THEN <<"fontSize">> ELSE <<>>)
                \o (IF rgb # None THEN <<"foregroundColor">> ELSE <<>>)
  IN [updateTextStyle |->
        [range |-> [startIndex |-> start, endIndex |-> end],
         textStyle |-> style,
         fields |-> fields]]

\* The footer's gray, {"red": 0.4, "green": 0.4, "blue": 0.4}, in tenths.
FooterGray == [red |-> 4, green |-> 4, blue |-> 4]

\* The points of indentation per nesting level.
IndentPt == 18

\* The footer's font size in points.
FooterFontPt == 10

\* The index at which the text is inserted and the first span starts.
BaseIndex == 1

RECURSIVE Flatten(_)
Flatten(ss) == IF ss = <<>> THEN <<>> ELSE Head(ss) \o Flatten(Tail(ss))

\* "".join(text_parts)
Join(parts) == Flatten(parts)

\* The requests the heading/footer loop appends for one span.
StyleRequestsOf(s) ==
  LET b == s.block IN
  IF b.kind = "h1"
  THEN <<_paragraph_style_request(s.start, s.end, Some("HEADING_1"), None)>>
  ELSE IF b.kind = "h2"
  THEN <<_paragraph_style_request(s.start, s.end, Some("HEADING_2"), None)>>
  ELSE IF b.kind = "h3"
  THEN <<_paragraph_style_request(s.start, s.end, Some("HEADING_3"), None)>>
  ELSE IF b.kind = "footer"
  THEN <<_text_style_request(s.start, s.end, None, Some(TRUE),
                             Some(FooterFontPt), Some(FooterGray))>>
  ELSE <<>>

BulletsRequest(start, end, preset) ==
  [createParagraphBullets |->
     [range |-> [startIndex |-> start, endIndex |-> end],
      bulletPreset |-> preset]]

\* A mutant of BulletPreset: the checkbox preset only for unchecked items.
BulletPresetByChecked(b) ==
  IF b.kind = "checkbox" /\ ~b.checked THEN "BULLET_CHECKBOX"
  ELSE "BULLET_DISC_CIRCLE_SQUARE"

\* The bulletPreset of a bullet or checkbox block.
BulletPreset(b) ==
  IF b.kind = "checkbox" THEN "BULLET_CHECKBOX" ELSE "BULLET_DISC_CIRCLE_SQUARE"

\* The requests the bullet loop appends for one span.
BulletRequestsOf(s) ==
  LET b == s.block IN
  IF b.kind \in {"bullet", "checkbox"}
  THEN <<BulletsRequest(s.start, s.end, BulletPreset(b))>>
       \o (IF b.level > 0
           THEN <<_paragraph_style_request(s.start, s.end, None,
                                           Some(IndentPt * b.level))>>
           ELSE <<>>)
  ELSE <<>>

\* MENTION_RE.finditer(text) from position i (1-based) on: the matches of
\* @\w+ left to right, each with Python's m.start() and m.end().
RECURSIVE MentionsFrom(_, _)
MentionsFrom(text, i) ==
  IF i > Len(text) THEN <<>>
  ELSE IF text[i] = "@" /\ Run(text, i + 1, WordChars) > 0
       THEN <<[start |-> i - 1, end |-> i + Run(text, i + 1, WordChars)]>>
            \o MentionsFrom(text, i + 1 + Run(text, i + 1, WordChars))
  ELSE MentionsFrom(text, i + 1)

\* A mutant of MENTION_RE_finditer: the pattern @\w, one word character.
RECURSIVE MentionsFromOne(_, _)
MentionsFromOne(text, i) ==
  IF i > Len(text) THEN <<>>
  ELSE IF text[i] = "@" /\ Run(text, i + 1, WordChars) > 0
       THEN <<[start |-> i - 1, end |-> i + 1]>> \o MentionsFromOne(text, i + 2)
  ELSE MentionsFromOne(text, i + 1)

MENTION_RE_finditer_one(text) == MentionsFromOne(text, 1)

MENTION_RE_finditer(text) == MentionsFrom(text, 1)

\* The requests the mention loop appends for one span.
MentionRequestsOf(s) ==
  IF s.block.text = <<>> THEN <<>>
  ELSE LET ms == MENTION_RE_finditer(s.block.text) IN
       [k \in 1..Len(ms) |->
          _text_style_request(s.start + ms[k].start, s.start + ms[k].end,
                              Some(TRUE), None, None, None)]

\* A mutant of NextCursor: the line terminator is not counted.
NextCursorNoTerminator(c, line) == c + Len(line)

\* cursor += len(line) + 1
NextCursor(c, line) == c + Len(line) + 1

\* The span the loop over blocks appends for block b with the cursor at c.
SpanOf(b, c) == [block |-> b, start |-> c, end |-> NextCursor(c, b.text)]

\* The request that inserts the whole text.
InsertTextRequest(text) ==
  [insertText |-> [location |-> [index |-> BaseIndex], text |-> text]]

\* The requests of the loop "Apply heading and footer styles".
StyleRequests(ss) == Flatten([i \in 1..Len(ss) |-> StyleRequestsOf(ss[i])])

\* The requests of the loop "Bullets + checkbox bullets".
BulletRequests(ss) == Flatten([i \in 1..Len(ss) |-> BulletRequestsOf(ss[i])])

\* The requests of the loop "Style @mentions".
MentionRequests(ss) == Flatten([i \in 1..Len(ss) |-> MentionRequestsOf(ss[i])])

\* The spans the loop over blocks computes for the blocks bs from the i-th on,
\* with the cursor at c.
RECURSIVE SpansFrom(_, _, _)
SpansFrom(bs, i, c) ==
  IF i > Len(bs) THEN <<>>
  ELSE <<SpanOf(bs[i], c)>> \o SpansFrom(bs, i + 1, NextCursor(c, bs[i].text))

\* full_text for the blocks bs: "".join of each block's text and "\n".
TextOf(bs) == Join([i \in 1..Len(bs) |-> bs[i].text \o <<"\n">>])

\* The request list markdown_to_google_doc builds for the blocks bs.
RequestsOf(bs) ==
  LET ss == SpansFrom(bs, 1, BaseIndex) IN
  <<InsertTextRequest(TextOf(bs))>>
  \o StyleRequests(ss) \o BulletRequests(ss) \o MentionRequests(ss)

DocUrl(id) == <<"https://docs.google.com/document/d/", id, "/edit">>

(***************************************************************************)
(* The input texts                                                         *)
(***************************************************************************)

\* The longest run of spaces that indents a line.
MaxIndent == 4

\* The most lines of a text of several lines.
MaxLines == 2

Spaces(n) == [i \in 1..n |-> " "]

\* Indentations: spaces, a tab before spaces, a tab after spaces.
Indents ==
  {Spaces(n) : n \in 0..MaxIndent}
  \cup {<<"\t">> \o Spaces(n) : n \in 0..MaxIndent}
  \cup {Spaces(n) \o <<"\t">> : n \in 1..MaxIndent}

Markers ==
  { <<>>,
    <<"#">>, <<"#", "#">>, <<"#", "#", "#">>,
    <<"-">>, <<"*">>,
    <<"-", " ", "[", " ", "]">>, <<"-", " ", "[", "x", "]">>,
    <<"-", " ", "[", "X", "]">>, <<"-", "\t", "[", "x", "]">>,
    <<"*", " ", "[", "x", "]">>, <<"-", " ", " ", "[", " ", "]">>,
    RULE, FOOTER_DURATION, FOOTER_RECORDED }

Contents ==
  { <<>>, <<" ">>, <<"a">>, <<" ", "a">>, <<"\t", "b", " ">>,
    <<" ", "@", "a", "_", "1", " ">>, <<" ", "a", "@", "b", "@", "@", "c">> }

OneLineTexts ==
  {i \o m \o c \o e : i \in Indents, m \in Markers, c \in Contents,
                      e \in {<<>>, <<"\n">>}}

DocLines ==
  { <<>>,
    <<"#", " ", "T">>,
    <<"#", "#", " ", "@", "a">>,
    <<"-", " ", "[", " ", "]", " ", "a">>,
    <<"-", " ", "[", "x", "]", " ", "@", "b">>,
    <<" ", " ", "*", " ", "c">>,
    RULE,
    <<"y", "@", "a", "@">>,
    FOOTER_DURATION \o <<"1">> }

Terminators == {<<"\n">>, <<"\r", "\n">>, <<"\r">>}

\* The lines ls, each ended by t; the last one only when final.
JoinLines(ls, t, final) ==
  Flatten([i \in 1..Len(ls) |->
             ls[i] \o (IF i < Len(ls) \/ final THEN t ELSE <<>>)])

\* The texts of up to MaxLines lines of DocLines, with one kind of terminator.
Docs ==
  {JoinLines(ls, t, final) :
     ls \in UNION {[1..k -> DocLines] : k \in 0..MaxLines},
     t \in Terminators, final \in BOOLEAN}

Inputs == OneLineTexts \cup Docs

(***************************************************************************)
(* markdown_to_google_doc                                                  *)
(***************************************************************************)

\* The call documents().create(body={"title": title}).execute() and what the
\* service answered.
CreateCall(answer) == [method |-> "documents.create", answer |-> answer]

NoResult == [status |-> "running"]

Init ==
  /\ md_text \in Inputs
  /\ pc = "create"
  /\ doc_id = None
  /\ blocks = <<>>
  /\ cursor = 0
  /\ text_parts = <<>>
  /\ spans = <<>>
  /\ full_text = <<>>
  /\ requests = <<>>
  /\ remote = <<>>
  /\ result = NoResult

\* docs_service.documents().create(...).execute() answers.
CreateDoc ==
  /\ pc = "create"
  /\ remote' = Append(remote, CreateCall("ok"))
  /\ doc_id' = Some("doc1")
  /\ pc' = "parse"
  /\ UNCHANGED <<md_text, blocks, cursor, text_parts, spans, full_text,
                 requests, result>>

\* documents().create fails: outside the try, the HttpError leaves the call.
CreateDocHttpError ==
  /\ pc = "create"
  /\ remote' = Append(remote, CreateCall("HttpError"))
  /\ result' = [status |-> "raised", error |-> "HttpError", cause |-> None]
  /\ pc' = "done"
  /\ UNCHANGED <<md_text, doc_id, blocks, cursor, text_parts, spans, full_text,
                 requests>>

ParseMarkdown ==
  /\ pc = "parse"
  /\ blocks' = parse_markdown(md_text)
  /\ cursor' = BaseIndex
  /\ text_parts' = <<>>
  /\ spans' = <<>>
  /\ pc' = "spans"
  /\ UNCHANGED <<md_text, doc_id, full_text, requests, remote, result>>


\* One iteration of the loop over blocks that builds text_parts and spans.
SpanStep ==
  /\ pc = "spans"
  /\ Len(spans) < Len(blocks)
  /\ LET b == blocks[Len(spans) + 1]
         start == cursor
         line == b.text
     IN /\ text_parts' = Append(text_parts, line \o <<"\n">>)
        /\ cursor' = NextCursor(cursor, line)
        /\ spans' = Append(spans, SpanOf(b, start))
  /\ UNCHANGED <<md_text, pc, doc_id, blocks, full_text, requests, remote, result>>

\* The loop is over: full_text is joined and the insertText request appended.
InsertText ==
  /\ pc = "spans"
  /\ Len(spans) = Len(blocks)
  /\ full_text' = Join(text_parts)
  /\ requests' = Append(requests, InsertTextRequest(full_text'))
  /\ pc' = "styles"
  /\ UNCHANGED <<md_text, doc_id, blocks, cursor, text_parts, spans, remote, result>>

\* The loop "Apply heading and footer styles".
StylePass ==
  /\ pc = "styles"
  /\ requests' = requests \o StyleRequests(spans)
  /\ pc' = "bullets"
  /\ UNCHANGED <<md_text, doc_id, blocks, cursor, text_parts, spans, full_text,
                 remote, result>>

\* A mutant of BulletPass: the list requests are put before the others.
BulletPassFirst ==
  /\ pc = "bullets"
  /\ requests' = BulletRequests(spans) \o requests
  /\ pc' = "mentions"
  /\ UNCHANGED <<md_text, doc_id, blocks, cursor, text_parts, spans, full_text,
                 remote, result>>

\* The loop "Bullets + checkbox bullets".
BulletPass ==
  /\ pc = "bullets"
  /\ requests' = requests \o BulletRequests(spans)
  /\ pc' = "mentions"
  /\ UNCHANGED <<md_text, doc_id, blocks, cursor, text_parts, spans, full_text,
                 remote, result>>

\* The loop "Style @mentions".
MentionPass ==
  /\ pc = "mentions"
  /\ requests' = requests \o MentionRequests(spans)
  /\ pc' = "submit"
  /\ UNCHANGED <<md_text, doc_id, blocks, cursor, text_parts, spans, full_text,
                 remote, result>>

\* The call documents().batchUpdate(documentId=doc_id, body={"requests":
\* requests}).execute() and what the service answered.
BatchUpdateCall(answer) ==
  [method |-> "documents.batchUpdate", documentId |-> doc_id[1],
   requests |-> requests, answer |-> answer]

\* batchUpdate answers: return doc_id, doc_url.
SubmitOk ==
  /\ pc = "submit"
  /\ remote' = Append(remote, BatchUpdateCall("ok"))
  /\ result' = [status |-> "returned",
                value |-> <<doc_id[1], DocUrl(doc_id[1])>>]
  /\ pc' = "done"
  /\ UNCHANGED <<md_text, doc_id, blocks, cursor, text_parts, spans, full_text,
                 requests>>

\* A mutant of SubmitHttpError: the except clause swallows the error and the
\* call returns as if the batch had been applied.
SubmitHttpErrorSwallowed ==
  /\ pc = "submit"
  /\ remote' = Append(remote, BatchUpdateCall("HttpError"))
  /\ result' = [status |-> "returned",
                value |-> <<doc_id[1], DocUrl(doc_id[1])>>]
  /\ pc' = "done"
  /\ UNCHANGED <<md_text, doc_id, blocks, cursor, text_parts, spans, full_text,
                 requests>>

\* batchUpdate raises HttpError: raise RuntimeError(...) from e.
SubmitHttpError ==
  /\ pc = "submit"
  /\ remote' = Append(remote, BatchUpdateCall("HttpError"))
  /\ result' = [status |-> "raised", error |-> "RuntimeError",
                cause |-> Some("HttpError")]
  /\ pc' = "done"
  /\ UNCHANGED <<md_text, doc_id, blocks, cursor, text_parts, spans, full_text,
                 requests>>

\* batchUpdate raises something that is not an HttpError (a transport error):
\* no except clause takes it, and it leaves the call as it is.
SubmitOtherError ==
  /\ pc = "submit"
  /\ remote' = Append(remote, BatchUpdateCall("Exception"))
  /\ result' = [status |-> "raised", error |-> "Exception", cause |-> None]
  /\ pc' = "done"
  /\ UNCHANGED <<md_text, doc_id, blocks, cursor, text_parts, spans, full_text,
                 requests>>

Next ==
  \/ CreateDoc
  \/ CreateDocHttpError
  \/ ParseMarkdown
  \/ SpanStep
  \/ InsertText
  \/ StylePass
  \/ BulletPass
  \/ MentionPass
  \/ SubmitOk
  \/ SubmitHttpError
  \/ SubmitOtherError

Spec == Init /\ [][Next]_vars

(***************************************************************************)
(* Definitions the properties are stated with.  They describe texts and    *)
(* lines by their shape, without the parser's operators.                   *)
(***************************************************************************)

\* The document was created and parse_markdown has run.
Parsed == pc \notin {"create", "parse"} /\ doc_id # None

\* All four request loops have run.
Built == pc \in {"submit", "done"} /\ doc_id # None

\* The positions where a line terminator ends: "\n", or "\r" not before "\n".
LineEnds(text) ==
  {p \in 1..Len(text) :
     \/ text[p] = "\n"
     \/ text[p] = "\r" /\ ~(p < Len(text) /\ text[p + 1] = "\n")}

\* The number of lines: one per terminator, and one more for text after the
\* last terminator.
NumLines(text) ==
  Cardinality(LineEnds(text))
  + (IF Len(text) > 0 /\ Len(text) \notin LineEnds(text) THEN 1 ELSE 0)

\* The number of lines when a final terminator is taken to start one more,
\* empty, line.
NumLinesWithFinalEmpty(text) ==
  Cardinality(LineEnds(text)) + (IF Len(text) > 0 THEN 1 ELSE 0)

Kth(S, k) == CHOOSE p \in S : Cardinality({q \in S : q < p}) = k - 1

\* The position in text of the first character of its i-th line.
LineStart(text, i) == IF i = 1 THEN 1 ELSE Kth(LineEnds(text), i - 1) + 1

\* The i-th line of text, without its terminator.
LineOf(text, i) ==
  LET E == LineEnds(text)
      first == LineStart(text, i)
      last == IF i <= Cardinality(E)
              THEN (LET p == Kth(E, i) IN
                    IF text[p] = "\n" /\ p > 1 /\ text[p - 1] = "\r"
                    THEN p - 2 ELSE p - 1)
              ELSE Len(text)
  IN SubSeq(text, first, last)

HasPrefix(line, p) ==
  Len(line) >= Len(p) /\ \A j \in 1..Len(p) : line[j] = p[j]

OnlyWhitespace(line) == \A j \in 1..Len(line) : line[j] \in Whitespace

\* Indentation of characters of cs, a dash, one of cs, a bracket pair holding
\* one of marks, one of cs, then anything.
CheckboxShape(line, cs, marks) ==
  \E n \in 0..Len(line) :
    /\ Len(line) >= n + 6
    /\ \A j \in 1..n : line[j] \in cs
    /\ line[n + 1] = "-"
    /\ line[n + 2] \in cs
    /\ line[n + 3] = "["
    /\ line[n + 4] \in marks
    /\ line[n + 5] = "]"
    /\ line[n + 6] \in cs

\* Indentation of characters of cs, "-" or "*", one of cs, then anything.
BulletShape(line, cs) ==
  \E n \in 0..Len(line) :
    /\ Len(line) >= n + 2
    /\ \A j \in 1..n : line[j] \in cs
    /\ line[n + 1] \in {"-", "*"}
    /\ line[n + 2] \in cs

\* The line is "---" between whitespace.
TrimsToRule(line) ==
  \E n \in 0..Len(line) :
    /\ Len(line) >= n + 3
    /\ \A j \in 1..n : line[j] \in Whitespace
    /\ \A j \in (n + 1)..(n + 3) : line[j] = "-"
    /\ \A j \in (n + 4)..Len(line) : line[j] \in Whitespace

\* The kind the nine rules give a line, first match first, when the checkbox
\* and bullet patterns take the characters of cs as their spaces.
CascadeKind(line, cs) ==
  IF OnlyWhitespace(line) THEN "blank"
  ELSE IF HasPrefix(line, <<"#", " ">>) THEN "h1"
  ELSE IF HasPrefix(line, <<"#", "#", " ">>) THEN "h2"
  ELSE IF HasPrefix(line, <<"#", "#", "#", " ">>) THEN "h3"
  ELSE IF CheckboxShape(line, cs, {" ", "x", "X"}) THEN "checkbox"
  ELSE IF BulletShape(line, cs) THEN "bullet"
  ELSE IF HasPrefix(line, FOOTER_RECORDED) \/ HasPrefix(line, FOOTER_DURATION)
       THEN "footer"
  ELSE IF TrimsToRule(line) THEN "blank"
  ELSE "p"

\* Every block has the kind (and, a checkbox, the checked state) of the
\* cascade in which cs are the patterns' spaces.
FollowsCascade(cs) ==
  /\ Len(blocks) = NumLines(md_text)
  /\ \A i \in 1..Len(blocks) :
       LET line == LineOf(md_text, i) IN
       /\ blocks[i].kind = CascadeKind(line, cs)
       /\ blocks[i].kind = "checkbox" =>
            (blocks[i].checked <=> CheckboxShape(line, cs, {"x", "X"}))

(***************************************************************************)
(* C1                                                                      *)
(***************************************************************************)

\* C1 as stated: every block has the kind of the first-match cascade whose
\* checkbox and bullet patterns are made of space characters only, so that a
\* line indented with anything but spaces is never a checkbox or a bullet.
C1_CascadeOfSpaces == Parsed => FollowsCascade({" "})

\* C1, amended: every block has the kind of the first-match cascade whose
\* checkbox and bullet patterns take any whitespace character (a space or a
\* tab) where the claim says "space"; a line that matches both patterns is a
\* checkbox, and checked holds iff the bracket holds x or X.
C1_CascadeOfWhitespace == Parsed => FollowsCascade(Whitespace)

\* A tab-indented line that matches the checkbox and the bullet pattern has
\* been parsed, as a checkbox.
C1_Witness ==
  /\ Parsed
  /\ \E i \in 1..Len(blocks) :
       /\ blocks[i].kind = "checkbox"
       /\ blocks[i].checked
       /\ LineOf(md_text, i)[1] = "\t"
       /\ BulletShape(LineOf(md_text, i), Whitespace)

(***************************************************************************)
(* C2                                                                      *)
(***************************************************************************)

\* C2 as stated: there are as many blocks as lines, where a text that ends
\* with a line terminator has a final empty line of its own.
C2_BlockPerLineWithFinalEmpty ==
  Parsed => Len(blocks) = NumLinesWithFinalEmpty(md_text)

\* C2, amended: there is one block per line, in input order, where a final
\* line terminator ends the last line and starts no further one (so no
\* trailing blank block comes of it).
C2_BlockPerLine ==
  Parsed =>
    /\ Len(blocks) = NumLines(md_text)
    /\ \A i \in 1..Len(blocks) : blocks[i] = ParseLine(LineOf(md_text, i))

\* A text of two lines that ends with a terminator has been parsed into two
\* blocks.
C2_Witness ==
  /\ Parsed
  /\ Len(md_text) \in LineEnds(md_text)
  /\ Cardinality(LineEnds(md_text)) = 2
  /\ Len(blocks) = 2
  /\ blocks[1].kind # blocks[2].kind

(***************************************************************************)
(* C3                                                                      *)
(***************************************************************************)

\* The insertText request has been appended: full_text is joined.
Inserted == pc \in {"styles", "bullets", "mentions", "submit", "done"} /\ doc_id # None

\* C3: the first span starts at 1, each span ends where the next one starts,
\* each span is len(block.text) + 1 long (1 for a blank block), the spans are
\* those of the blocks in order, and once the text is joined the last span
\* ends at 1 + len(full_text).
C3_SpansContiguous ==
  /\ spans # <<>> => spans[1].start = 1
  /\ \A i \in 1..(Len(spans) - 1) : spans[i].end = spans[i + 1].start
  /\ \A i \in 1..Len(spans) :
       /\ spans[i].block = blocks[i]
       /\ spans[i].end - spans[i].start = Len(spans[i].block.text) + 1
       /\ spans[i].block.kind = "blank" => spans[i].end - spans[i].start = 1
  /\ Inserted =>
       /\ Len(spans) = Len(blocks)
       /\ spans # <<>> => spans[Len(spans)].end = 1 + Len(full_text)

\* Two spans were computed, a blank block's and one of a block with text.
C3_Witness ==
  /\ Inserted
  /\ Len(spans) = 2
  /\ spans[1].block.kind = "blank"
  /\ spans[2].block.text # <<>>
  /\ spans[2].end = 1 + Len(full_text)

(***************************************************************************)
(* C4                                                                      *)
(***************************************************************************)

\* The step of markdown_to_google_doc a request belongs to: 1 the insertion,
\* 2 heading and footer styles, 3 list bullets and indents, 4 mention bold.
StepOf(r) ==
  IF "insertText" \in DOMAIN r THEN 1
  ELSE IF "createParagraphBullets" \in DOMAIN r THEN 3
  ELSE IF "updateParagraphStyle" \in DOMAIN r
       THEN (IF "indentStart" \in DOMAIN r.updateParagraphStyle.paragraphStyle
             THEN 3 ELSE 2)
  ELSE (IF "bold" \in DOMAIN r.updateTextStyle.textStyle THEN 4 ELSE 2)

\* C4: the request list holds exactly one insertText request, as its first
\* element, and no request of a later step stands before one of an earlier
\* step; no request exists before the insertion.
C4_StepOrder ==
  /\ ~Inserted => requests = <<>>
  /\ Inserted =>
       /\ Cardinality({i \in 1..Len(requests) : StepOf(requests[i]) = 1}) = 1
       /\ StepOf(requests[1]) = 1
       /\ \A i, j \in 1..Len(requests) :
            i < j => StepOf(requests[i]) <= StepOf(requests[j])

\* A built list with requests of all four steps, in which a later line's
\* heading style precedes an earlier line's bullets and bold.
C4_Witness ==
  /\ Built
  /\ {StepOf(requests[i]) : i \in 1..Len(requests)} = {1, 2, 3, 4}
  /\ \E i, j, k \in 1..Len(requests) :
       /\ i < j /\ j < k
       /\ StepOf(requests[i]) = 2 /\ "updateParagraphStyle" \in DOMAIN requests[i]
       /\ "createParagraphBullets" \in DOMAIN requests[j]
       /\ StepOf(requests[k]) = 4
       /\ requests[i].updateParagraphStyle.range.startIndex
            > requests[j].createParagraphBullets.range.startIndex
       /\ requests[k].updateTextStyle.range.startIndex
            < requests[i].updateParagraphStyle.range.startIndex

(***************************************************************************)
(* C5                                                                      *)
(***************************************************************************)

\* C5 as stated: for the empty text there are no blocks, full_text is empty
\* and the request list is empty.
C5_EmptyTextNoRequests ==
  (Built /\ md_text = <<>>) =>
    /\ blocks = <<>>
    /\ full_text = <<>>
    /\ requests = <<>>

(***************************************************************************)
(* C6                                                                      *)
(***************************************************************************)

\* The line rebuilt from a block's fields.
RebuildLine(b) ==
  IF b.kind = "h1" THEN <<"#", " ">> \o b.text
  ELSE IF b.kind = "h2" THEN <<"#", "#", " ">> \o b.text
  ELSE IF b.kind = "h3" THEN <<"#", "#", "#", " ">> \o b.text
  ELSE IF b.kind = "bullet" THEN Spaces(2 * b.level) \o <<"-", " ">> \o b.text
  ELSE IF b.kind = "checkbox"
       THEN Spaces(2 * b.level)
            \o <<"-", " ", "[", (IF b.checked THEN "x" ELSE " "), "]", " ">>
            \o b.text
  ELSE IF b.kind = "blank" THEN <<>>
  ELSE b.text

\* The text rebuilt from the blocks, one terminated line per block.
Rebuild(bs) == Flatten([i \in 1..Len(bs) |-> RebuildLine(bs[i]) \o <<"\n">>])

Kinds(bs) == [i \in 1..Len(bs) |-> bs[i].kind]

\* A bullet whose text begins with a checkbox marker and whitespace.
BulletReadsAsCheckbox(b) ==
  /\ b.kind = "bullet"
  /\ Len(b.text) >= 4
  /\ b.text[1] = "[" /\ b.text[2] \in {" ", "x", "X"} /\ b.text[3] = "]"
  /\ b.text[4] \in Whitespace

\* A paragraph whose text begins with a heading marker or a footer prefix.
ParagraphReadsAsOther(b) ==
  /\ b.kind = "p"
  /\ \/ HasPrefix(b.text, <<"#", " ">>)
     \/ HasPrefix(b.text, <<"#", "#", " ">>)
     \/ HasPrefix(b.text, <<"#", "#", "#", " ">>)
     \/ HasPrefix(b.text, FOOTER_RECORDED)
     \/ HasPrefix(b.text, FOOTER_DURATION)

\* C6 as stated: parsing the text rebuilt from the blocks gives the same kind
\* at every position.
C6_ReparseSameKinds ==
  Parsed => Kinds(parse_markdown(Rebuild(blocks))) = Kinds(blocks)

\* C6, amended: parsing the rebuilt text gives as many blocks, and the same
\* kind at every position except those of a bullet whose text begins with a
\* checkbox marker followed by whitespace (rebuilt, it is a checkbox) and of
\* a paragraph whose text begins with "# ", "## ", "### " or a footer prefix
\* (rebuilt, it is a heading or a footer).
C6_ReparseSameKindsUnlessMarker ==
  Parsed =>
    LET again == parse_markdown(Rebuild(blocks)) IN
    /\ Len(again) = Len(blocks)
    /\ \A i \in 1..Len(blocks) :
         IF BulletReadsAsCheckbox(blocks[i]) THEN again[i].kind = "checkbox"
         ELSE IF ParagraphReadsAsOther(blocks[i])
              THEN again[i].kind \in {"h1", "h2", "h3", "footer"}
         ELSE again[i].kind = blocks[i].kind

\* A checkbox and an indented "*" bullet were parsed; the rebuilt text is not
\* the input, and parses to the same kinds.
C6_Witness ==
  /\ Parsed
  /\ Len(blocks) = 2
  /\ blocks[1].kind = "checkbox" /\ blocks[1].checked
  /\ blocks[2].kind = "bullet" /\ blocks[2].level = 1
  /\ Rebuild(blocks) # md_text
  /\ Kinds(parse_markdown(Rebuild(blocks))) = <<"checkbox", "bullet">>

(***************************************************************************)
(* C7                                                                      *)
(***************************************************************************)

\* The maximal occurrences of "@" and one or more word characters in text, as
\* <<ms, me>>: the token is text[ms:me] in Python's offsets.
Mentions(text) ==
  {m \in (0..Len(text)) \X (0..Len(text)) :
     /\ m[1] + 2 <= m[2]
     /\ text[m[1] + 1] = "@"
     /\ \A j \in (m[1] + 2)..m[2] : text[j] \in WordChars
     /\ (m[2] = Len(text) \/ text[m[2] + 1] \notin WordChars)}

\* A text-style request that sets bold.
IsBold(r) ==
  /\ "updateTextStyle" \in DOMAIN r
  /\ "bold" \in DOMAIN r.updateTextStyle.textStyle

\* The text-style request that sets bold, and nothing else, over [a, z).
BoldOnly(a, z) ==
  [updateTextStyle |->
     [range |-> [startIndex |-> a, endIndex |-> z],
      textStyle |-> [bold |-> TRUE],
      fields |-> <<"bold">>]]

\* C7: for every mention token of every span's text there is exactly one
\* bold-only request, over the token's range offset by the span's start; that
\* range lies inside the span before its terminator, and full_text holds the
\* token there; there is no other bold request.
C7_MentionsBold ==
  Built =>
    /\ \A i \in 1..Len(spans) :
         \A m \in Mentions(spans[i].block.text) :
           LET a == spans[i].start + m[1]
               z == spans[i].start + m[2]
           IN /\ Cardinality({k \in 1..Len(requests) :
                                requests[k] = BoldOnly(a, z)}) = 1
              /\ spans[i].start <= a /\ a < z /\ z <= spans[i].end - 1
              /\ SubSeq(full_text, a, z - 1)
                   = SubSeq(spans[i].block.text, m[1] + 1, m[2])
    /\ \A k \in 1..Len(requests) :
         IsBold(requests[k]) =>
           \E i \in 1..Len(spans) :
             \E m \in Mentions(spans[i].block.text) :
               requests[k] = BoldOnly(spans[i].start + m[1], spans[i].start + m[2])

\* Two spans with mentions, the second span's tokens several characters long
\* or several in number.
C7_Witness ==
  /\ Built
  /\ Len(spans) = 2
  /\ Mentions(spans[1].block.text) # {}
  /\ \E m \in Mentions(spans[2].block.text) : m[1] > 0
  /\ Cardinality({k \in 1..Len(requests) : IsBold(requests[k])}) = 2

(***************************************************************************)
(* C8                                                                      *)
(***************************************************************************)

\* The positions in text of the character between the brackets of its
\* checkbox lines.
MarkPositions(text) ==
  {LineStart(text, i) + Run(LineOf(text, i), 1, Whitespace) + 3 :
     i \in {j \in 1..NumLines(text) :
              CascadeKind(LineOf(text, j), Whitespace) = "checkbox"}}

\* The texts that differ from text only in the marks of its checkbox lines.
MarkVariants(text) ==
  LET marks == MarkPositions(text) IN
  {[p \in 1..Len(text) |-> IF p \in marks THEN f[p] ELSE text[p]] :
     f \in [marks -> {" ", "x", "X"}]}

\* C8: every text that differs from the input only in the marks of its
\* checkbox lines parses to the same blocks up to checked, and gives the same
\* full_text and the same request list; every checkbox block has exactly one
\* createParagraphBullets request over its span, with the checkbox preset, and
\* every bullet block exactly one, with the disc/circle/square preset.
C8_CheckedStateNotCompiled ==
  Built =>
    /\ \A v \in MarkVariants(md_text) :
         LET bs == parse_markdown(v) IN
         /\ Len(bs) = Len(blocks)
         /\ \A i \in 1..Len(bs) :
              [bs[i] EXCEPT !.checked = blocks[i].checked] = blocks[i]
         /\ TextOf(bs) = full_text
         /\ RequestsOf(bs) = requests
    /\ \A i \in 1..Len(spans) :
         spans[i].block.kind \in {"bullet", "checkbox"} =>
           LET range == [startIndex |-> spans[i].start, endIndex |-> spans[i].end]
               over == {k \in 1..Len(requests) :
                          /\ "createParagraphBullets" \in DOMAIN requests[k]
                          /\ requests[k].createParagraphBullets.range = range}
           IN /\ Cardinality(over) = 1
              /\ \A k \in over :
                   requests[k].createParagraphBullets.bulletPreset
                     = (IF spans[i].block.kind = "checkbox"
                        THEN "BULLET_CHECKBOX" ELSE "BULLET_DISC_CIRCLE_SQUARE")

\* A checked and an unchecked checkbox line were compiled; the input has nine
\* variants.
C8_Witness ==
  /\ Built
  /\ Len(blocks) = 2
  /\ blocks[1].kind = "checkbox" /\ ~blocks[1].checked
  /\ blocks[2].kind = "checkbox" /\ blocks[2].checked
  /\ Cardinality(MarkVariants(md_text)) = 9

(***************************************************************************)
(* C9                                                                      *)
(***************************************************************************)

\* The number of space characters that begin the line.
LeadingSpaces(line) ==
  CHOOSE k \in 0..Len(line) :
    /\ \A j \in 1..k : line[j] = " "
    /\ (k = Len(line) \/ line[k + 1] # " ")

\* A paragraph-style request that sets indentStart.
IsIndent(r) ==
  /\ "updateParagraphStyle" \in DOMAIN r
  /\ "indentStart" \in DOMAIN r.updateParagraphStyle.paragraphStyle

\* The paragraph-style request that sets indentStart, and nothing else, to pt
\* points over [a, z).
IndentOnly(a, z, pt) ==
  [updateParagraphStyle |->
     [range |-> [startIndex |-> a, endIndex |-> z],
      paragraphStyle |-> [indentStart |-> [magnitude |-> pt, unit |-> "PT"]],
      fields |-> <<"indentStart">>]]

\* The level C9 gives the i-th block: floor(k / 2) for a bullet or checkbox
\* line that k spaces begin, 0 for any other line.
LevelByLine(i) ==
  IF blocks[i].kind \in {"bullet", "checkbox"}
  THEN LeadingSpaces(LineOf(md_text, i)) \div 2
  ELSE 0

\* C9: a bullet or checkbox block's level is floor(k / 2) for the k spaces
\* that begin its line, and any other block's level is 0; the request list
\* holds an indent request over a block's span iff that level is positive,
\* its magnitude is 18 points times the level, and there is no other indent
\* request.
C9_LevelAndIndent ==
  /\ Parsed =>
       /\ Len(blocks) = NumLines(md_text)
       /\ \A i \in 1..Len(blocks) : blocks[i].level = LevelByLine(i)
  /\ Built =>
       /\ \A i \in 1..Len(spans) :
            LET over == {k \in 1..Len(requests) :
                           /\ IsIndent(requests[k])
                           /\ requests[k].updateParagraphStyle.range
                                = [startIndex |-> spans[i].start,
                                   endIndex |-> spans[i].end]}
            IN /\ over # {} <=> LevelByLine(i) > 0
               /\ \A k \in over :
                    requests[k] = IndentOnly(spans[i].start, spans[i].end,
                                             18 * LevelByLine(i))
       /\ \A k \in 1..Len(requests) :
            IsIndent(requests[k]) =>
              \E i \in 1..Len(spans) :
                requests[k].updateParagraphStyle.range
                  = [startIndex |-> spans[i].start, endIndex |-> spans[i].end]

\* A bullet line that three spaces begin was compiled: level 1 and an indent
\* request of 18 points.
C9_Witness ==
  /\ Built
  /\ \E i \in 1..Len(spans) :
       /\ blocks[i].kind = "bullet"
       /\ LeadingSpaces(LineOf(md_text, i)) = 3
       /\ blocks[i].level = 1
       /\ \E k \in 1..Len(requests) :
            requests[k] = IndentOnly(spans[i].start, spans[i].end, 18)

(***************************************************************************)
(* C10                                                                     *)
(***************************************************************************)

\* The positions in remote of the calls of method m.
Calls(m) == {i \in 1..Len(remote) : remote[i].method = m}

\* C10: the batch is submitted at most once, as the second remote call after
\* the document's creation, with the requests all built; when the service
\* answers HttpError the call raises one RuntimeError whose cause is that
\* HttpError and returns nothing; when it answers, the call returns
\* (document_id, document_url); nothing is called after the submission.
C10_SubmitOnce ==
  /\ Cardinality(Calls("documents.batchUpdate")) <= 1
  /\ \A i \in Calls("documents.batchUpdate") :
       /\ i = 2 /\ Len(remote) = 2
       /\ remote[1] = CreateCall("ok")
       /\ remote[i].documentId = doc_id[1]
       /\ remote[i].requests = requests
       /\ requests = <<InsertTextRequest(full_text)>> \o StyleRequests(spans)
                       \o BulletRequests(spans) \o MentionRequests(spans)
       /\ remote[i].answer = "HttpError" =>
            result = [status |-> "raised", error |-> "RuntimeError",
                      cause |-> <<"HttpError">>]
       /\ remote[i].answer = "ok" =>
            result = [status |-> "returned",
                      value |-> <<doc_id[1], DocUrl(doc_id[1])>>]
  /\ result.status = "returned" =>
       \E i \in Calls("documents.batchUpdate") : remote[i].answer = "ok"
  /\ (result.status = "raised" /\ result.error = "RuntimeError") =>
       \E i \in Calls("documents.batchUpdate") : remote[i].answer = "HttpError"

\* The submission of a list of several requests failed and the call raised.
C10_Witness ==
  /\ pc = "done"
  /\ Len(requests) > 2
  /\ Calls("documents.batchUpdate") = {2}
  /\ remote[2].answer = "HttpError"
  /\ result.status = "raised"

====
